---- MODULE Spec2Model ----
(***************************************************************************)
(* Model of relayer/chainsentry/chainsentry.go: the ChainSentry that polls *)
(* an upstream chain, keeps a queue of blocks (blocksQueue) and the last   *)
(* observed tip (latestBlockNum), and answers GetLatestBlockData.          *)
(*                                                                         *)
(* The upstream chain, the goroutine that calls Init, the poller goroutines*)
(* started by Start and one reader goroutine are the processes.  A handler *)
(* is split only where the code can be interleaved: at a lock acquisition  *)
(* and at an upstream call.                                                *)
(***************************************************************************)
EXTENDS Integers, Sequences, FiniteSets, TLC

\* ---------------------------------------------------------------- constants
DEFAULT_NUM_FINAL_BLOCKS == 3
DEFAULT_NUM_SAVED_BLOCKS == 7

\* NewChainSentry: the two configuration fields of the struct
numFinalBlocks == DEFAULT_NUM_FINAL_BLOCKS
finalizedBlockDistance == DEFAULT_NUM_SAVED_BLOCKS

\* ------------------------------------------------------------------- bounds
MinTip == 10          \* lowest height the upstream chain starts at
MaxTip == 12          \* highest height the upstream chain reaches
MaxReorgDepth == 1    \* how far below its highest height the chain may fall back
MaxPollers == 2       \* poller goroutine identities
MaxLeap == 4          \* most heights the chain gains between two polls

PollerIds == 1..MaxPollers

\* ------------------------------------------------------------------- values
Free == 0             \* blockQueueMu is not held
InitId == 100         \* holder id of the goroutine running Init
NoBlock == -2         \* "no block number"
NoHash == 0           \* the hash read from a nil block map

VARIABLES
    chainTip,         \* upstream: current height
    highestTip,       \* upstream: highest height ever reported
    latestBlockNum,   \* cs.latestBlockNum
    blocksQueue,      \* cs.blocksQueue
    blockQueueMu,     \* cs.blockQueueMu: Free or the holder
    pcInit,           \* position of the goroutine that runs Init
    initLatest,       \* Init: local latestBlock
    initI,            \* Init: loop variable i
    pcPoll,           \* per poller: position in Start / catchupOnFinalizedBlocks
    latestBlock,      \* per poller: local latestBlock
    prevLatestBlock,  \* per poller: local prevLatestBlock
    loopI,            \* per poller: loop variable i
    pcReader,         \* position of the reader goroutine
    readerResult,     \* what the reader's last GetLatestBlockData returned
    readerOverlapped, \* history: the reader's call was issued during a refresh
    crashed,          \* "no", "fatal" (log.Fatalln) or "panic" (runtime panic)
    initRequests,     \* history: block numbers Init requested, in order
    cycleRequests,    \* history, per poller: block numbers the cycle requested
    cyclePre,         \* history, per poller: tip and queue when the cycle began
    prevObserved,     \* history, per poller: tip observed by the operation before
    lastObserved,     \* history: tip observed by the last completed operation
    outcome,          \* history, per poller: how the last cycle ended
    failedBlock,      \* history, per poller: block whose fetch failed
    published,        \* history: states left behind by a completed Init/refresh
    tickPending,      \* per poller: ticker.C holds a tick (the channel buffers one)
    running,          \* history, per poller: cycles begun and not yet returned
    cycleTipReply,    \* history, per poller: how the cycle's tip request ended
    stopRequested,    \* history: the host has decided to stop the poller
    numResult,        \* what the last GetLatestBlockNum call returned
    initFailed        \* history: a fetch failed during Init

vars == <<chainTip, highestTip, latestBlockNum, blocksQueue, blockQueueMu,
          pcInit, initLatest, initI, pcPoll, latestBlock, prevLatestBlock,
          loopI, pcReader, readerResult, readerOverlapped, crashed,
          initRequests, cycleRequests, cyclePre, prevObserved, lastObserved,
          outcome, failedBlock, published, tickPending, running,
          cycleTipReply, stopRequested, numResult, initFailed>>

chainVars == <<chainTip, highestTip>>
initLocals == <<pcInit, initLatest, initI, initRequests>>
pollLocals == <<pcPoll, latestBlock, prevLatestBlock, loopI>>
readerVars == <<pcReader, readerResult, readerOverlapped>>
cycleHistory == <<cycleRequests, cyclePre, prevObserved, outcome, failedBlock>>
tickerVars == <<tickPending, running, cycleTipReply>>
hostVars == <<stopRequested, numResult>>

\* ------------------------------------------------------------ the upstream
HashOf(n) == 1000 + 3 * n

\* eth_getBlockByNumber: the block at height n, or a null result (decoded
\* into a nil map) for a height the chain does not have
UpstreamBlock(n) ==
    IF n <= chainTip THEN [number |-> n, hash |-> HashOf(n)]
                     ELSE [number |-> NoBlock, hash |-> NoHash]

TipReplies == {"ok", "sendError", "malformed"}

\* fetchLatestBlockNum: the value it returns; a result that cannot be
\* unquoted or parsed leaves latestBlock at 0 because both errors are dropped
fetchLatestBlockNum(reply) ==
    CASE reply = "ok" -> chainTip
      [] reply = "sendError" -> -1
      [] reply = "malformed" -> 0

\* fetchLatestBlockNum: whether it returns a non-nil error
fetchLatestBlockNumErr(reply) == reply = "sendError"

\* fetchBlockByNum: a negative height is formatted as "0x-<hex>", which the
\* endpoint rejects; the empty result then fails to decode
BlockReplies(n) == IF n < 0 THEN {"error"} ELSE {"ok", "error"}

Alive == crashed = "no"

ChainAdvance ==
    /\ chainTip < MaxTip
    /\ chainTip' = chainTip + 1
    /\ highestTip' = IF chainTip + 1 > highestTip THEN chainTip + 1 ELSE highestTip
    /\ UNCHANGED <<tickerVars, hostVars, initFailed>>
    /\ UNCHANGED <<latestBlockNum, blocksQueue, blockQueueMu, initLocals,
                   pollLocals, readerVars, crashed, cycleHistory, lastObserved,
                   published>>

ChainRegress ==
    /\ chainTip > highestTip - MaxReorgDepth
    /\ chainTip' = chainTip - 1
    /\ UNCHANGED <<tickerVars, hostVars, initFailed>>
    /\ UNCHANGED <<highestTip, latestBlockNum, blocksQueue, blockQueueMu,
                   initLocals, pollLocals, readerVars, crashed, cycleHistory,
                   lastObserved, published>>

\* ------------------------------------------------------------------ Init
InitFirstBlock_OffByOne(latest) ==
    latest - (finalizedBlockDistance + numFinalBlocks) + 1

\* Init's loop bounds (line 134)
InitFirstBlock(latest) == latest - (finalizedBlockDistance + numFinalBlocks)
InitLastBlock(latest) == latest - finalizedBlockDistance - 1

\* Init, line 122-127: fetch the tip; log.Fatalln on error
InitFetchTip ==
    /\ Alive
    /\ pcInit = "new"
    /\ \E reply \in TipReplies :
         IF fetchLatestBlockNumErr(reply)
         THEN /\ crashed' = "fatal"
              /\ initFailed' = TRUE
              /\ UNCHANGED <<pcInit, initLatest>>
         ELSE /\ initLatest' = fetchLatestBlockNum(reply)
              /\ pcInit' = "setTip"
              /\ UNCHANGED <<crashed, initFailed>>
    /\ UNCHANGED <<tickerVars, hostVars>>
    /\ UNCHANGED <<chainVars, latestBlockNum, blocksQueue, blockQueueMu, initI,
                   initRequests, pollLocals, readerVars, cycleHistory,
                   lastObserved, published>>

\* Init, line 129: SetLatestBlockNum(latestBlock), lock, store, unlock
InitSetLatestBlockNum ==
    /\ Alive
    /\ pcInit = "setTip"
    /\ blockQueueMu = Free
    /\ latestBlockNum' = initLatest
    /\ pcInit' = "lock"
    /\ UNCHANGED <<tickerVars, hostVars, initFailed>>
    /\ UNCHANGED <<chainVars, blocksQueue, blockQueueMu, initLatest, initI,
                   initRequests, pollLocals, readerVars, crashed, cycleHistory,
                   lastObserved, published>>

\* Init, line 131-134: take the lock and start the loop
InitLock ==
    /\ Alive
    /\ pcInit = "lock"
    /\ blockQueueMu = Free
    /\ blockQueueMu' = InitId
    /\ initI' = InitFirstBlock(initLatest)
    /\ pcInit' = "fetching"
    /\ UNCHANGED <<tickerVars, hostVars, initFailed>>
    /\ UNCHANGED <<chainVars, latestBlockNum, blocksQueue, initLatest,
                   initRequests, pollLocals, readerVars, crashed, cycleHistory,
                   lastObserved, published>>

\* Init, line 134-143: one iteration of the loop
InitFetchBlock ==
    /\ Alive
    /\ pcInit = "fetching"
    /\ initI <= InitLastBlock(initLatest)
    /\ initRequests' = Append(initRequests, initI)
    /\ \E reply \in BlockReplies(initI) :
         IF reply = "error"
         THEN /\ crashed' = "fatal"
              /\ initFailed' = TRUE
              /\ UNCHANGED <<blocksQueue, initI>>
         ELSE /\ blocksQueue' = Append(blocksQueue, UpstreamBlock(initI))
              /\ initI' = initI + 1
              /\ UNCHANGED <<crashed, initFailed>>
    /\ UNCHANGED <<tickerVars, hostVars>>
    /\ UNCHANGED <<chainVars, latestBlockNum, blockQueueMu, pcInit, initLatest,
                   pollLocals, readerVars, cycleHistory, lastObserved,
                   published>>

\* Init, line 144-146: the loop is over; unlock and return nil
InitUnlock ==
    /\ Alive
    /\ pcInit = "fetching"
    /\ initI > InitLastBlock(initLatest)
    /\ blockQueueMu' = Free
    /\ pcInit' = "done"
    /\ lastObserved' = initLatest
    /\ published' = published \cup {[tip |-> latestBlockNum, queue |-> blocksQueue]}
    /\ UNCHANGED <<tickerVars, hostVars, initFailed>>
    /\ UNCHANGED <<chainVars, latestBlockNum, blocksQueue, initLatest, initI,
                   initRequests, pollLocals, readerVars, crashed, cycleHistory>>

\* ------------------------------------------------------------ the poller
\* line 156: the test that decides whether the cycle does anything
TipChanged(stored, latest) == stored # latest

FirstMissingBlock_NoPlusOne(prev) == prev

\* line 162: the first block of the catch-up loop
FirstMissingBlock(prev) == prev + 1

EvictOffset_OffByOne(latest, prev) == latest - prev - 1

\* line 174: the low bound of the slice expression
EvictOffset(latest, prev) == latest - prev

SliceFrom_OneMore(q, off) == SubSeq(q, off + 2, Len(q))

\* line 174: s[off:]
SliceFrom(q, off) == SubSeq(q, off + 1, Len(q))

StoredTip_Prev(latest, prev) == prev

\* line 176: the value stored into cs.latestBlockNum
StoredTip(latest, prev) == latest

LoopAtSelect_Spawn(p) == pcPoll[p] # "off"

\* Start, line 188-196: the goroutine calls catchupOnFinalizedBlocks itself,
\* so it is back at the select only after the call has returned
LoopAtSelect(p) == pcPoll[p] = "idle"

\* Start, line 183 and 190: the ticker fires; ticker.C buffers one tick and a
\* tick that finds the buffer full is dropped
Tick(p) ==
    /\ Alive
    /\ pcPoll[p] # "off"
    /\ ~tickPending[p]
    /\ tickPending' = [tickPending EXCEPT ![p] = TRUE]
    /\ UNCHANGED <<chainVars, latestBlockNum, blocksQueue, blockQueueMu,
                   initLocals, pollLocals, readerVars, crashed, cycleHistory,
                   lastObserved, published, running, cycleTipReply, hostVars,
                   initFailed>>

\* Start, line 184 and 192: quit is a local channel that Start neither returns
\* nor stores, and nothing sends on it or closes it; the host's decision to
\* stop the poller therefore reaches no state of the ChainSentry
StopRequest ==
    /\ Alive
    /\ \E p \in PollerIds : pcPoll[p] # "off"
    /\ ~stopRequested
    /\ stopRequested' = TRUE
    /\ UNCHANGED <<chainVars, latestBlockNum, blocksQueue, blockQueueMu,
                   initLocals, pollLocals, readerVars, crashed, cycleHistory,
                   lastObserved, published, tickerVars, numResult, initFailed>>

\* Start, line 182-200: the goroutine is created; the caller has run Init
\* before, and Start is called once
Start(p) ==
    /\ Alive
    /\ pcInit = "done"
    /\ \A q \in PollerIds : pcPoll[q] = "off"
    /\ pcPoll' = [pcPoll EXCEPT ![p] = "idle"]
    /\ UNCHANGED <<tickerVars, hostVars, initFailed>>
    /\ UNCHANGED <<chainVars, latestBlockNum, blocksQueue, blockQueueMu,
                   initLocals, latestBlock, prevLatestBlock, loopI, readerVars,
                   crashed, cycleHistory, lastObserved, published>>

\* ticker.C fires; catchupOnFinalizedBlocks line 150-153: the tip is fetched,
\* an error is logged and the returned value is used all the same
CatchupFetchTip(p) ==
    /\ Alive
    /\ LoopAtSelect(p)
    /\ tickPending[p]
    /\ tickPending' = [tickPending EXCEPT ![p] = FALSE]
    /\ running' = [running EXCEPT ![p] = @ + 1]
    /\ \E reply \in TipReplies :
         /\ latestBlock' = [latestBlock EXCEPT ![p] = fetchLatestBlockNum(reply)]
         /\ cycleTipReply' = [cycleTipReply EXCEPT ![p] = reply]
    /\ pcPoll' = [pcPoll EXCEPT ![p] = "compare"]
    /\ cyclePre' = [cyclePre EXCEPT ![p] =
                       [tip |-> latestBlockNum, queue |-> blocksQueue]]
    /\ cycleRequests' = [cycleRequests EXCEPT ![p] = <<>>]
    /\ prevObserved' = [prevObserved EXCEPT ![p] = lastObserved]
    /\ outcome' = [outcome EXCEPT ![p] = "none"]
    /\ failedBlock' = [failedBlock EXCEPT ![p] = NoBlock]
    /\ UNCHANGED <<hostVars, initFailed>>
    /\ UNCHANGED <<chainVars, latestBlockNum, blocksQueue, blockQueueMu,
                   initLocals, prevLatestBlock, loopI, readerVars, crashed,
                   lastObserved, published>>

\* line 156 and 179: compare with the stored tip; return nil when equal
CatchupCompare(p) ==
    /\ Alive
    /\ pcPoll[p] = "compare"
    /\ IF TipChanged(latestBlockNum, latestBlock[p])
       THEN /\ pcPoll' = [pcPoll EXCEPT ![p] = "lock"]
            /\ UNCHANGED <<outcome, lastObserved, running>>
       ELSE /\ pcPoll' = [pcPoll EXCEPT ![p] = "idle"]
            /\ outcome' = [outcome EXCEPT ![p] = "ok"]
            /\ lastObserved' = latestBlock[p]
            /\ running' = [running EXCEPT ![p] = @ - 1]
    /\ UNCHANGED <<tickPending, cycleTipReply, hostVars, initFailed>>
    /\ UNCHANGED <<chainVars, latestBlockNum, blocksQueue, blockQueueMu,
                   initLocals, latestBlock, prevLatestBlock, loopI, readerVars,
                   crashed, cycleRequests, cyclePre, prevObserved, failedBlock,
                   published>>

\* line 157-162: take the lock, read the stored tip, start the loop
CatchupLock(p) ==
    /\ Alive
    /\ pcPoll[p] = "lock"
    /\ blockQueueMu = Free
    /\ blockQueueMu' = p
    /\ prevLatestBlock' = [prevLatestBlock EXCEPT ![p] = latestBlockNum]
    /\ loopI' = [loopI EXCEPT ![p] = FirstMissingBlock(latestBlockNum)]
    /\ pcPoll' = [pcPoll EXCEPT ![p] = "fetching"]
    /\ UNCHANGED <<tickerVars, hostVars, initFailed>>
    /\ UNCHANGED <<chainVars, latestBlockNum, blocksQueue, initLocals,
                   latestBlock, readerVars, crashed, cycleHistory, lastObserved,
                   published>>

\* line 162-170: one iteration of the loop; log.Fatalln on a fetch error
CatchupFetchBlock(p) ==
    /\ Alive
    /\ pcPoll[p] = "fetching"
    /\ loopI[p] <= latestBlock[p]
    /\ cycleRequests' = [cycleRequests EXCEPT ![p] = Append(@, loopI[p])]
    /\ \E reply \in BlockReplies(loopI[p]) :
         IF reply = "error"
         THEN /\ crashed' = "fatal"
              /\ outcome' = [outcome EXCEPT ![p] = "fatal"]
              /\ failedBlock' = [failedBlock EXCEPT ![p] = loopI[p]]
              /\ UNCHANGED <<blocksQueue, loopI>>
         ELSE /\ blocksQueue' = Append(blocksQueue, UpstreamBlock(loopI[p]))
              /\ loopI' = [loopI EXCEPT ![p] = @ + 1]
              /\ UNCHANGED <<crashed, outcome, failedBlock>>
    /\ UNCHANGED <<tickerVars, hostVars, initFailed>>
    /\ UNCHANGED <<chainVars, latestBlockNum, blockQueueMu, initLocals, pcPoll,
                   latestBlock, prevLatestBlock, readerVars, cyclePre,
                   prevObserved, lastObserved, published>>

\* line 174: drop the oldest entries; a low bound outside 0..len panics
CatchupEvict(p) ==
    /\ Alive
    /\ pcPoll[p] = "fetching"
    /\ loopI[p] > latestBlock[p]
    /\ LET off == EvictOffset(latestBlock[p], prevLatestBlock[p]) IN
         IF off < 0 \/ off > Len(blocksQueue)
         THEN /\ crashed' = "panic"
              /\ outcome' = [outcome EXCEPT ![p] = "panic"]
              /\ UNCHANGED <<blocksQueue, pcPoll>>
         ELSE /\ blocksQueue' = SliceFrom(blocksQueue, off)
              /\ pcPoll' = [pcPoll EXCEPT ![p] = "publish"]
              /\ UNCHANGED <<crashed, outcome>>
    /\ UNCHANGED <<tickerVars, hostVars, initFailed>>
    /\ UNCHANGED <<chainVars, latestBlockNum, blockQueueMu, initLocals,
                   latestBlock, prevLatestBlock, loopI, readerVars,
                   cycleRequests, cyclePre, prevObserved, failedBlock,
                   lastObserved, published>>

\* line 176-179: store the tip, unlock, return nil
CatchupPublish(p) ==
    /\ Alive
    /\ pcPoll[p] = "publish"
    /\ latestBlockNum' = StoredTip(latestBlock[p], prevLatestBlock[p])
    /\ blockQueueMu' = Free
    /\ pcPoll' = [pcPoll EXCEPT ![p] = "idle"]
    /\ outcome' = [outcome EXCEPT ![p] = "ok"]
    /\ lastObserved' = latestBlock[p]
    /\ running' = [running EXCEPT ![p] = @ - 1]
    /\ published' = published \cup
                      {[tip |-> latestBlockNum', queue |-> blocksQueue]}
    /\ UNCHANGED <<tickPending, cycleTipReply, hostVars, initFailed>>
    /\ UNCHANGED <<chainVars, blocksQueue, initLocals, latestBlock,
                   prevLatestBlock, loopI, readerVars, crashed, cycleRequests,
                   cyclePre, prevObserved, failedBlock>>

\* ------------------------------------------------------------ the readers
\* GetLatestBlockNum, line 49-51
GetLatestBlockNum == latestBlockNum

\* a caller invokes GetLatestBlockNum: an atomic load, no lock
ReadLatestBlockNum ==
    /\ Alive
    /\ numResult' = GetLatestBlockNum
    /\ numResult' # numResult
    /\ UNCHANGED <<chainVars, latestBlockNum, blocksQueue, blockQueueMu,
                   initLocals, pollLocals, readerVars, crashed, cycleHistory,
                   lastObserved, published, tickerVars, stopRequested,
                   initFailed>>

FinalizedBlockNum_NoNumFinal(tip, i) == tip - finalizedBlockDistance + i

\* GetLatestBlockData, line 67: the key of the i-th entry
FinalizedBlockNum(tip, i) ==
    tip - finalizedBlockDistance - numFinalBlocks + i

\* GetLatestBlockData, line 64-69: the map the loop builds (a later i
\* overwrites an earlier one with the same key)
FinalizedHashes(tip, q) ==
    LET idx == 0..(numFinalBlocks - 1)
        keys == {FinalizedBlockNum(tip, i) : i \in idx}
        lastFor(k) == CHOOSE i \in idx :
                         /\ FinalizedBlockNum(tip, i) = k
                         /\ \A j \in idx : FinalizedBlockNum(tip, j) = k => j <= i
    IN [k \in keys |-> q[lastFor(k) + 1].hash]

NoResult == [tip |-> NoBlock, hashes |-> <<>>]

ReaderMayEnter_NoLock == TRUE

\* GetLatestBlockData, line 60: Lock() succeeds only while nobody holds it
ReaderMayEnter == blockQueueMu = Free

\* a caller invokes GetLatestBlockData
ReaderCall ==
    /\ Alive
    /\ pcReader = "idle"
    /\ pcReader' = "waiting"
    /\ readerOverlapped' = (blockQueueMu \in PollerIds)
    /\ UNCHANGED <<tickerVars, hostVars, initFailed>>
    /\ UNCHANGED <<chainVars, latestBlockNum, blocksQueue, blockQueueMu,
                   initLocals, pollLocals, readerResult, crashed, cycleHistory,
                   lastObserved, published>>

\* GetLatestBlockData, line 59-71, run under the lock; indexing a queue
\* shorter than numFinalBlocks panics
ReaderReturn ==
    /\ Alive
    /\ pcReader = "waiting"
    /\ ReaderMayEnter
    /\ IF Len(blocksQueue) < numFinalBlocks
       THEN /\ crashed' = "panic"
            /\ UNCHANGED <<pcReader, readerResult>>
       ELSE /\ readerResult' = [tip |-> GetLatestBlockNum,
                                hashes |-> FinalizedHashes(GetLatestBlockNum,
                                                           blocksQueue)]
            /\ pcReader' = "idle"
            /\ UNCHANGED crashed
    /\ UNCHANGED <<tickerVars, hostVars, initFailed>>
    /\ UNCHANGED <<chainVars, latestBlockNum, blocksQueue, blockQueueMu,
                   initLocals, pollLocals, readerOverlapped, cycleHistory,
                   lastObserved, published>>

\* ------------------------------------------------------- the specification
\* NewChainSentry, line 202-213, and an upstream chain at some height
Init ==
    /\ chainTip \in MinTip..MaxTip
    /\ highestTip = chainTip
    /\ latestBlockNum = 0
    /\ blocksQueue = <<>>
    /\ blockQueueMu = Free
    /\ pcInit = "new"
    /\ initLatest = 0
    /\ initI = 0
    /\ pcPoll = [p \in PollerIds |-> "off"]
    /\ latestBlock = [p \in PollerIds |-> 0]
    /\ prevLatestBlock = [p \in PollerIds |-> 0]
    /\ loopI = [p \in PollerIds |-> 0]
    /\ pcReader = "idle"
    /\ readerResult = NoResult
    /\ readerOverlapped = FALSE
    /\ crashed = "no"
    /\ initRequests = <<>>
    /\ cycleRequests = [p \in PollerIds |-> <<>>]
    /\ cyclePre = [p \in PollerIds |-> [tip |-> 0, queue |-> <<>>]]
    /\ prevObserved = [p \in PollerIds |-> NoBlock]
    /\ lastObserved = NoBlock
    /\ outcome = [p \in PollerIds |-> "none"]
    /\ failedBlock = [p \in PollerIds |-> NoBlock]
    /\ published = {}
    /\ tickPending = [p \in PollerIds |-> FALSE]
    /\ running = [p \in PollerIds |-> 0]
    /\ cycleTipReply = [p \in PollerIds |-> "none"]
    /\ stopRequested = FALSE
    /\ numResult = NoBlock
    /\ initFailed = FALSE

Next ==
    \/ ChainAdvance
    \/ ChainRegress
    \/ InitFetchTip
    \/ InitSetLatestBlockNum
    \/ InitLock
    \/ InitFetchBlock
    \/ InitUnlock
    \/ \E p \in PollerIds : Start(p)
    \/ \E p \in PollerIds : Tick(p)
    \/ StopRequest
    \/ \E p \in PollerIds : CatchupFetchTip(p)
    \/ \E p \in PollerIds : CatchupCompare(p)
    \/ \E p \in PollerIds : CatchupLock(p)
    \/ \E p \in PollerIds : CatchupFetchBlock(p)
    \/ \E p \in PollerIds : CatchupEvict(p)
    \/ \E p \in PollerIds : CatchupPublish(p)
    \/ ReaderCall
    \/ ReaderReturn
    \/ ReadLatestBlockNum

Spec == Init /\ [][Next]_vars

Ready == pcInit = "done" /\ crashed = "no"

\* ------------------------------------- a chain that gains several heights
\* between two ticks of the 5 s ticker the upstream chain may gain more
\* heights than the window has entries
ChainLeap ==
    /\ \E k \in 1..MaxLeap :
          /\ chainTip + k <= MinTip + MaxLeap
          /\ chainTip' = chainTip + k
          /\ highestTip' = IF chainTip + k > highestTip THEN chainTip + k
                                                       ELSE highestTip
    /\ UNCHANGED <<latestBlockNum, blocksQueue, blockQueueMu, initLocals,
                   pollLocals, readerVars, crashed, cycleHistory, lastObserved,
                   published, tickerVars, hostVars, initFailed>>

InitLeap == Init /\ chainTip = MinTip

NextLeap ==
    \/ ChainLeap
    \/ InitFetchTip
    \/ InitSetLatestBlockNum
    \/ InitLock
    \/ InitFetchBlock
    \/ InitUnlock
    \/ \E p \in PollerIds : Start(p)
    \/ \E p \in PollerIds : Tick(p)
    \/ \E p \in PollerIds : CatchupFetchTip(p)
    \/ \E p \in PollerIds : CatchupCompare(p)
    \/ \E p \in PollerIds : CatchupLock(p)
    \/ \E p \in PollerIds : CatchupFetchBlock(p)
    \/ \E p \in PollerIds : CatchupEvict(p)
    \/ \E p \in PollerIds : CatchupPublish(p)

SpecLeap == InitLeap /\ [][NextLeap]_vars

\* ------------------------------------------- an upstream that never fails
\* the steps that call the upstream, when the request is answered and the
\* answer is well formed
OkInitFetchTip == InitFetchTip /\ crashed' = "no" /\ initLatest' = chainTip
OkInitFetchBlock == InitFetchBlock /\ crashed' = "no"
OkCatchupFetchTip(p) == CatchupFetchTip(p) /\ cycleTipReply'[p] = "ok"
OkCatchupFetchBlock(p) == CatchupFetchBlock(p) /\ crashed' = "no"

\* the goroutine that runs Init
InitStep ==
    \/ OkInitFetchTip
    \/ InitSetLatestBlockNum
    \/ InitLock
    \/ OkInitFetchBlock
    \/ InitUnlock

\* the goroutine of Start, line 187-197
PollerStep(p) ==
    \/ OkCatchupFetchTip(p)
    \/ CatchupCompare(p)
    \/ CatchupLock(p)
    \/ OkCatchupFetchBlock(p)
    \/ CatchupEvict(p)
    \/ CatchupPublish(p)

NextLive ==
    \/ ChainAdvance
    \/ ChainRegress
    \/ OkInitFetchTip
    \/ InitSetLatestBlockNum
    \/ InitLock
    \/ OkInitFetchBlock
    \/ InitUnlock
    \/ \E p \in PollerIds : Start(p)
    \/ \E p \in PollerIds : Tick(p)
    \/ \E p \in PollerIds : OkCatchupFetchTip(p)
    \/ \E p \in PollerIds : CatchupCompare(p)
    \/ \E p \in PollerIds : CatchupLock(p)
    \/ \E p \in PollerIds : OkCatchupFetchBlock(p)
    \/ \E p \in PollerIds : CatchupEvict(p)
    \/ \E p \in PollerIds : CatchupPublish(p)

\* every goroutine that can run does run, the host calls Init and Start, and
\* the ticker keeps firing; the chain is free to stop
LiveFairness ==
    /\ WF_vars(InitStep)
    /\ WF_vars(\E p \in PollerIds : Start(p))
    /\ \A p \in PollerIds : WF_vars(Tick(p))
    /\ \A p \in PollerIds : WF_vars(PollerStep(p))

LiveSpec == Init /\ [][NextLive]_vars /\ LiveFairness

\* ------------------------------------------------- Start called twice
\* Start, line 182-200: nothing in Start records that a poller is already
\* running, so a second call creates a second ticker and a second goroutine
StartAgain(p) ==
    /\ Alive
    /\ pcInit = "done"
    /\ pcPoll[p] = "off"
    /\ \E q \in PollerIds : pcPoll[q] # "off"
    /\ pcPoll' = [pcPoll EXCEPT ![p] = "idle"]
    /\ UNCHANGED <<tickerVars, hostVars, initFailed>>
    /\ UNCHANGED <<chainVars, latestBlockNum, blocksQueue, blockQueueMu,
                   initLocals, latestBlock, prevLatestBlock, loopI, readerVars,
                   crashed, cycleHistory, lastObserved, published>>

\* the pollers of every Start call, over an upstream that only grows and
\* answers every request. The read of cs.latestBlockNum at line 156 is not
\* synchronised with the store at line 176; it yields the value before or
\* after the store, which is the order of CatchupCompare and CatchupPublish.
NextOverlap ==
    \/ ChainAdvance
    \/ OkInitFetchTip
    \/ InitSetLatestBlockNum
    \/ InitLock
    \/ OkInitFetchBlock
    \/ InitUnlock
    \/ \E p \in PollerIds : Start(p)
    \/ \E p \in PollerIds : StartAgain(p)
    \/ \E p \in PollerIds : Tick(p)
    \/ \E p \in PollerIds : OkCatchupFetchTip(p)
    \/ \E p \in PollerIds : CatchupCompare(p)
    \/ \E p \in PollerIds : CatchupLock(p)
    \/ \E p \in PollerIds : OkCatchupFetchBlock(p)
    \/ \E p \in PollerIds : CatchupEvict(p)
    \/ \E p \in PollerIds : CatchupPublish(p)

SpecOverlap == Init /\ [][NextOverlap]_vars

\* ------------------------------------------------------------- properties
\* the state is one left by a completed Init or a completed refresh
Quiescent == Ready /\ blockQueueMu = Free

Numbers(q) == [i \in 1..Len(q) |-> q[i].number]

\* a cycle of poller p that found a higher tip has completed
AdvancedOk(p) ==
    /\ pcPoll[p] = "idle"
    /\ outcome[p] = "ok"
    /\ latestBlock[p] > cyclePre[p].tip

\* C1, as claimed: after Init and after every successful refresh the window
\* holds exactly finalizedBlockDistance + numFinalBlocks entries.
C1_WindowHoldsCapacity ==
    Quiescent => Len(blocksQueue) = finalizedBlockDistance + numFinalBlocks

\* C1, amended: after Init and after every successful refresh the window
\* holds exactly numFinalBlocks entries, never more and never fewer.
C1_WindowHoldsNumFinal ==
    Quiescent => Len(blocksQueue) = numFinalBlocks

C1_Witness ==
    /\ Quiescent
    /\ \E p \in PollerIds : AdvancedOk(p) /\ latestBlock[p] >= cyclePre[p].tip + 2
    /\ Len(blocksQueue) = numFinalBlocks

\* C2: after a successful Init and any successful refreshes the block numbers
\* in the window are consecutive ascending integers and the last one is
\* tip - finalizedBlockDistance - 1.
C2_WindowContiguous ==
    Quiescent =>
        /\ \A i \in 1..(Len(blocksQueue) - 1) :
               blocksQueue[i + 1].number = blocksQueue[i].number + 1
        /\ Len(blocksQueue) > 0
        /\ blocksQueue[Len(blocksQueue)].number =
               latestBlockNum - finalizedBlockDistance - 1

\* C3: every entry blockNum -> hash returned by GetLatestBlockData is the hash
\* of the upstream block numbered blockNum, and the i-th oldest window entry
\* is the block numbered tip - finalizedBlockDistance - numFinalBlocks + i.
C3_HashesBelongToKeys ==
    /\ readerResult # NoResult =>
           \A k \in DOMAIN readerResult.hashes :
               readerResult.hashes[k] = HashOf(k)
    /\ Quiescent =>
           \A i \in 0..(numFinalBlocks - 1) :
               /\ i + 1 <= Len(blocksQueue)
               /\ blocksQueue[i + 1].number =
                      latestBlockNum - finalizedBlockDistance - numFinalBlocks + i

\* C4: when fetchBlock fails during a refresh that covers several new blocks,
\* the call reports an error and tip and window are as before the call.
C4_FetchFailureLeavesStateUnchanged ==
    \A p \in PollerIds :
        (failedBlock[p] # NoBlock /\ latestBlock[p] > cyclePre[p].tip + 1) =>
            /\ outcome[p] = "error"
            /\ latestBlockNum = cyclePre[p].tip
            /\ blocksQueue = cyclePre[p].queue

\* C5: the tip and the hashes a GetLatestBlockData call returns both come
\* from one state left by a completed Init or refresh, also when the call
\* runs concurrently with a refresh.
C5_ReaderSeesOnePublishedState ==
    readerResult # NoResult =>
        \E s \in published :
            /\ Len(s.queue) >= numFinalBlocks
            /\ readerResult.tip = s.tip
            /\ \A i \in 0..(numFinalBlocks - 1) :
                   LET k == s.tip - finalizedBlockDistance - numFinalBlocks + i
                   IN k \in DOMAIN readerResult.hashes
                      /\ readerResult.hashes[k] = s.queue[i + 1].hash

C5_Witness ==
    /\ pcReader = "idle"
    /\ readerOverlapped
    /\ readerResult # NoResult
    /\ \E p \in PollerIds : AdvancedOk(p) /\ readerResult.tip = latestBlock[p]

\* C6: after a successful refresh that observed newTip > tip, the stored tip
\* is newTip and the window covers the previous range of block numbers
\* shifted up by newTip - tip.
C6_WindowShiftsWithTip ==
    \A p \in PollerIds :
        AdvancedOk(p) =>
            /\ latestBlockNum = latestBlock[p]
            /\ Len(blocksQueue) = Len(cyclePre[p].queue)
            /\ \A i \in 1..Len(blocksQueue) :
                   blocksQueue[i].number =
                       cyclePre[p].queue[i].number
                           + (latestBlock[p] - cyclePre[p].tip)

\* C7: a refresh that observes the stored tip requests no block, leaves tip
\* and window unchanged and returns nil; and a refresh that observes the tip
\* the operation before it observed does the same.
C7_RefreshIdempotent ==
    \A p \in PollerIds :
        (/\ pcPoll[p] = "idle"
         /\ outcome[p] # "none"
         /\ \/ latestBlock[p] = cyclePre[p].tip
            \/ latestBlock[p] = prevObserved[p]) =>
            /\ outcome[p] = "ok"
            /\ cycleRequests[p] = <<>>
            /\ latestBlockNum = cyclePre[p].tip
            /\ blocksQueue = cyclePre[p].queue

C7_Witness ==
    /\ Cardinality(published) >= 2
    /\ \E p \in PollerIds :
          /\ pcPoll[p] = "idle"
          /\ outcome[p] = "ok"
          /\ latestBlock[p] = cyclePre[p].tip
          /\ latestBlock[p] = prevObserved[p]
          /\ blocksQueue = cyclePre[p].queue

\* C8: in every Ready state GetLatestBlockData returns (it does not index
\* past the window), with exactly numFinalBlocks entries whose keys are
\* tip - finalizedBlockDistance - numFinalBlocks .. tip -
\* finalizedBlockDistance - 1 for the tip it returns.
C8_ExactlyNumFinalKeys ==
    /\ Quiescent => Len(blocksQueue) >= numFinalBlocks
    /\ (Ready /\ readerResult # NoResult) =>
           /\ DOMAIN readerResult.hashes =
                  (readerResult.tip - finalizedBlockDistance - numFinalBlocks)
                      .. (readerResult.tip - finalizedBlockDistance - 1)
           /\ Cardinality(DOMAIN readerResult.hashes) = numFinalBlocks

C8_Witness ==
    /\ Ready
    /\ pcReader = "idle"
    /\ readerResult # NoResult
    /\ Cardinality(published) >= 2
    /\ readerResult.tip = latestBlockNum

\* C9: a successful Init that observed tip0 has requested the blocks
\* tip0 - finalizedBlockDistance - numFinalBlocks .. tip0 -
\* finalizedBlockDistance - 1 in ascending order, the window holds them in
\* that order, and GetLatestBlockNum returns tip0.
C9_InitFetchesFinalizedRange ==
    (pcInit = "done" /\ \A p \in PollerIds : pcPoll[p] = "off") =>
        LET lo == initLatest - finalizedBlockDistance - numFinalBlocks
            wanted == [i \in 1..numFinalBlocks |-> lo + i - 1]
        IN /\ initRequests = wanted
           /\ Numbers(blocksQueue) = wanted
           /\ \A i \in 1..Len(blocksQueue) :
                  blocksQueue[i].hash = HashOf(blocksQueue[i].number)
           /\ GetLatestBlockNum = initLatest

C9_Witness ==
    /\ pcInit = "done"
    /\ \A p \in PollerIds : pcPoll[p] = "off"
    /\ Len(blocksQueue) = numFinalBlocks
    /\ Len(initRequests) = numFinalBlocks
    /\ latestBlockNum = initLatest
    /\ initLatest > 0

\* C10: a refresh that observes newTip < tip ends with a ReorgDetected error,
\* leaves tip and window unchanged and never slices the window with a
\* negative offset.
C10_RegressionRejected ==
    \A p \in PollerIds :
        (/\ outcome[p] # "none"
         /\ latestBlock[p] > 0
         /\ latestBlock[p] < cyclePre[p].tip) =>
            /\ outcome[p] = "reorgDetected"
            /\ crashed # "panic"
            /\ latestBlockNum = cyclePre[p].tip
            /\ blocksQueue = cyclePre[p].queue

\* the cycle of poller p left tip and window as it found them
CycleLeftStateUnchanged(p) ==
    /\ latestBlockNum = cyclePre[p].tip
    /\ blocksQueue = cyclePre[p].queue

\* C11: when fetchTip fails in a refresh the cycle is discarded: no block is
\* requested, tip and window stay as they were, and the process lives on so
\* that a later tick can run a refresh.
C11_TipFetchFailureDiscardsCycle ==
    \A p \in PollerIds :
        cycleTipReply[p] = "sendError" =>
            /\ cycleRequests[p] = <<>>
            /\ CycleLeftStateUnchanged(p)
            /\ Alive

\* C12: while Init has not completed, GetLatestBlockNum does not return the
\* zero tip and GetLatestBlockData does not crash (both fail with NotReady).
C12_UninitializedReadsFail ==
    /\ numResult # 0
    /\ (pcInit # "done" /\ pcReader = "waiting") => crashed # "panic"

\* C13: when a fetch fails during Init, Init returns to its caller (the
\* process lives on), the tracker is not Ready, and neither a tip nor a
\* window entry written by the failed attempt is left behind.
C13_FailedInitLeavesNothing ==
    initFailed =>
        /\ Alive
        /\ pcInit # "done"
        /\ blockQueueMu = Free
        /\ latestBlockNum = 0
        /\ blocksQueue = <<>>

\* C14: a tip that GetLatestBlockNum returns is the tip of a state left by a
\* completed Init or a completed refresh.
C14_ObservedTipIsPublished ==
    numResult \notin {NoBlock, 0} =>
        \E s \in published : s.tip = numResult

\* C15: a refresh cycle in which a tip or block fetch failed does not end
\* the process: the poller goroutine is still there for the next tick.
C15_FailedCycleKeepsPolling ==
    \A p \in PollerIds :
        (failedBlock[p] # NoBlock \/ cycleTipReply[p] = "sendError") =>
            crashed = "no"

\* C16: the poller never runs two refresh cycles at the same time: a cycle
\* begins only after the one before it has returned.
C16_OneCycleAtATime ==
    /\ \A p \in PollerIds : running[p] <= 1
    /\ \A p, q \in PollerIds : (running[p] = 1 /\ running[q] = 1) => p = q
    /\ \A p \in PollerIds : (running[p] = 0) <=> (pcPoll[p] \in {"off", "idle"})

\* a tick arrived while the cycle was in the middle of its fetches, and waits
C16_Witness ==
    \E p \in PollerIds :
        /\ Alive
        /\ pcPoll[p] = "fetching"
        /\ cycleRequests[p] # <<>>
        /\ tickPending[p]
        /\ running[p] = 1

\* C17: once the stop signal has been given, no tick starts a new refresh.
C17_NoCycleAfterStop ==
    [][stopRequested =>
          \A p \in PollerIds : ~(pcPoll[p] = "idle" /\ pcPoll'[p] = "compare")]_vars

\* C18: a GetLatestBlockData call never has to wait for an upstream fetch: it
\* can take the lock while a refresh is inside fetchBlock.
C18_ReaderNeverWaitsForFetch ==
    (/\ Alive
     /\ pcReader = "waiting"
     /\ \E p \in PollerIds :
           pcPoll[p] = "fetching" /\ loopI[p] <= latestBlock[p]) =>
        ReaderMayEnter

\* C19: a tip result that cannot be parsed aborts the cycle: the value is
\* never used as a tip (the cycle does not get past the comparison into the
\* locked section), and tip and window stay as they were.
C19_MalformedTipAbortsCycle ==
    \A p \in PollerIds :
        cycleTipReply[p] = "malformed" =>
            /\ pcPoll[p] \notin {"lock", "fetching", "publish"}
            /\ crashed # "panic"
            /\ CycleLeftStateUnchanged(p)

\* C20: a refresh that observes newTip > tip requests exactly tip + 1 ..
\* newTip, each once and in ascending order, appends each reply to the tail
\* (nothing is evicted while it appends), and only then removes exactly
\* newTip - tip entries from the head.
C20_FetchAppendThenEvict ==
    \A p \in PollerIds :
        LET pre == cyclePre[p]
            n0 == Len(pre.queue)
            jump == latestBlock[p] - pre.tip
            IsReplyFor(b, n) == b.number \in {n, NoBlock}
        IN /\ (Alive /\ pcPoll[p] = "fetching" /\ jump > 0) =>
                 /\ cycleRequests[p] =
                        [i \in 1..(loopI[p] - pre.tip - 1) |-> pre.tip + i]
                 /\ Len(blocksQueue) = n0 + Len(cycleRequests[p])
                 /\ SubSeq(blocksQueue, 1, n0) = pre.queue
                 /\ \A i \in 1..Len(cycleRequests[p]) :
                        IsReplyFor(blocksQueue[n0 + i], pre.tip + i)
           /\ ((Alive /\ pcPoll[p] = "publish" /\ jump > 0) \/ AdvancedOk(p)) =>
                 /\ cycleRequests[p] = [i \in 1..jump |-> pre.tip + i]
                 /\ Len(blocksQueue) = n0
                 /\ \A i \in 1..n0 :
                        IF i + jump <= n0
                        THEN blocksQueue[i] = pre.queue[i + jump]
                        ELSE IsReplyFor(blocksQueue[i],
                                        pre.tip + (i + jump - n0))

C20_Witness ==
    \E p \in PollerIds :
        /\ AdvancedOk(p)
        /\ latestBlock[p] = cyclePre[p].tip + 2
        /\ cycleRequests[p] = <<cyclePre[p].tip + 1, cyclePre[p].tip + 2>>
        /\ blocksQueue[Len(blocksQueue)].number = latestBlock[p]

\* C21: every successful refresh that observed newTip >= tip leaves the
\* number of window entries as it was, however large the jump, and the
\* eviction of a cycle that observed newTip >= tip never slices outside the
\* window (only a cycle that observed a lower tip panics).
C21_LengthKeptForAnyJump ==
    \A p \in PollerIds :
        /\ (pcPoll[p] = "idle" /\ outcome[p] = "ok"
                /\ latestBlock[p] >= cyclePre[p].tip) =>
               Len(blocksQueue) = Len(cyclePre[p].queue)
        /\ (Alive /\ pcPoll[p] = "publish") =>
               Len(blocksQueue) = Len(cyclePre[p].queue)
        /\ outcome[p] = "panic" => latestBlock[p] < cyclePre[p].tip

\* a refresh that jumped over more heights than the window has entries
C21_Witness ==
    \E p \in PollerIds :
        /\ AdvancedOk(p)
        /\ latestBlock[p] - cyclePre[p].tip > numFinalBlocks
        /\ Len(blocksQueue) = numFinalBlocks
        /\ blocksQueue[1].number = cyclePre[p].tip + 2

\* C22: if the poller keeps ticking, every fetch succeeds and the upstream
\* tip eventually stays at some height T, then the stored tip eventually
\* equals T and stays T.
C22_StoredTipConverges ==
    \A T \in 0..MaxTip :
        (<>[](chainTip = T)) => <>[](latestBlockNum = T)

\* C23: no path through Init or a refresh ends with blockQueueMu still held:
\* when the call is over, on success or on a fetch error, the caller does not
\* hold the lock.
C23_LockFreeWhenCallEnds ==
    /\ (pcInit = "done" \/ initFailed) => blockQueueMu # InitId
    /\ \A p \in PollerIds :
           (pcPoll[p] = "idle" \/ failedBlock[p] # NoBlock) => blockQueueMu # p

\* C24: when the cycles of two pollers overlap, the comparison made outside
\* the lock still holds once the lock is taken, the eviction offset is never
\* negative, the stored tip never moves backwards and the window keeps its
\* length.
C24_OverlapKeepsState ==
    /\ \A p \in PollerIds :
           pcPoll[p] = "fetching" =>
               /\ TipChanged(prevLatestBlock[p], latestBlock[p])
               /\ EvictOffset(latestBlock[p], prevLatestBlock[p]) >= 0
    /\ crashed # "panic"
    /\ \A s \in published : s.tip <= latestBlockNum
    /\ (pcInit = "done" /\ blockQueueMu = Free) => Len(blocksQueue) = numFinalBlocks

====
